---- MODULE Spec2Model ----
(***************************************************************************)
(* Air-Drop+ : rendezvous (signaling) server, peer-connection orchestrator *)
(* and chunked transfer engine, modelled from the TypeScript sources.      *)
(*                                                                         *)
(*   SpecServer   server/storage.ts + the WebSocket handlers (routes)      *)
(*   SpecEngine   FileTransferManager of a sender and of its peer, over one *)
(*                data channel                                             *)
(*   SpecOrch     WebRTCManager of one endpoint: its signaling socket and  *)
(*                its peer connection                                      *)
(*   SpecBytes    one file through the chunk loop and the reassembly, with *)
(*                its bytes                                                *)
(***************************************************************************)
EXTENDS Integers, Sequences, FiniteSets, TLC

\* ------------------------------------------------------------------ bounds
\* Number of WebSocket connections the server ever accepts (one fresh
\* randomUUID per connection).
MaxClients == 3

\* ------------------------------------------------------- program constants
\* storage.ts:138  maxAge = 60 * 60 * 1000 ms, in hours.
maxAge == 1
\* storage.ts:90  "Limit to 2 clients per room".
RoomLimit == 2

Clients == 1..MaxClients
NoClient == 0
\* roomId is any string a client puts in join{roomId}; "" is the string that
\* JavaScript treats as false in `if (!roomId)` / `if (roomId)`.
RoomIds == {"", "room1"}
NoRoom == "<undefined>"
\* The relayed envelopes a client may send: each tag with a payload of
\* its own (the sdp or candidate blob, opaque to the server).
RelayMsgs == {[type |-> "offer", payload |-> "sdp1"],
              [type |-> "answer", payload |-> "sdp2"],
              [type |-> "ice-candidate", payload |-> "cand1"]}

VARIABLES
  \* ---- server (storage.ts, routes)
  rooms,        \* MemStorage.rooms : roomId -> [clients, age]
  clientRooms,  \* routes: clientRooms : clientId -> roomId
  sock,         \* per connection: readyState of its server-side WebSocket
  sent,         \* what the last handler handed to ws.send : <<[to, msg]>>
  logged,       \* the "[Room] Removed empty room" / "Cleaned up room" lines
                \* the last handler wrote to the console : <<[line, room]>>
  pjLog         \* the peer-joined delivered so far between two endpoints
                \* whose connections are both still up : {[to, joiner, room]}

VARIABLES
  \* ---- transfer engine (webrtc-manager.ts, FileTransferManager), the
  \* sending engine S of one endpoint and the receiving engine R of its peer
  dc,           \* dataChannel.readyState, the same at S and at R
  xfer,         \* S: every SendingTransfer object made, by file id, with
                \* the position of its sendChunks loop
  sendMap,      \* S: keys of sendingTransfers
  calls,        \* S: the sendFiles calls : <<[queue, state]>>
  wire,         \* the frames S handed to dataChannel.send that the channel
                \* has not transmitted to R yet, in send order
  rx,           \* R: every ReceivingTransfer object made, by file id
  recvKeys,     \* R: keys of receivingTransfers, in insertion order
  back          \* transfer-cancel frames R handed to its channel, not yet
                \* delivered to S

VARIABLES
  \* ---- the pause and resume requests made at S
  pauseAsked    \* file ids with a pause requested and no resume since

VARIABLES
  \* ---- orchestrator (webrtc-manager.ts, WebRTCManager) of one endpoint
  ws,           \* this.ws : "null" or the readyState of the WebSocket
  pc,           \* this.pc : [made, local, remote, chain, conn, offered]:
                \* whether it is an RTCPeerConnection (or null), whether
                \* its local and its remote description are set, its
                \* operations chain, its connectionState, and whether the
                \* offer made on it was handed to ws.send
  dataChannel,  \* this.dataChannel : "null" or "created"
  chan,         \* readyState of the RTCDataChannel that setupDataChannel
                \* last put its handlers on ("none" before there is one);
                \* the handlers stay on it after this.dataChannel = null
  isInitiator,  \* this.isInitiator
  uiState,      \* the last state given to onConnectionStateChange since
                \* connect() was called ("none": none yet)
  wsOut,        \* what the last handler handed to ws.send
  onErr,        \* what the last handler gave to callbacks.onError
  tornDown,     \* whether cleanup() has run (by itself or in disconnect())
                \* since connect() was last called
  got,          \* the ice-candidates received from the server, in order
  applied       \* the candidates the peer connection added, in order

VARIABLES
  \* ---- two endpoints and the rendezvous server between them
  ep,           \* per endpoint, its WebRTCManager: [ws, pc, dataChannel,
                \* chan, isInitiator, uiState, gathered, applied]
  up,           \* per endpoint: what it handed to ws.send and the server
                \* has not handled yet, in order
  down,         \* per endpoint: what the server sent it and its
                \* ws.onmessage has not handled yet, in order
  didSend       \* the signaling each endpoint has sent: {<<endpoint, type>>}

VARIABLES
  \* ---- one file through the chunk loop, byte by byte (sendChunks,
  \* handleChunk, handleTransferComplete)
  file,         \* the bytes of the File given to sendFile
  cfgChunk,     \* P2P_CONFIG.chunkSize of this run
  snd,          \* the SendingTransfer: [status, idx, bytes]
  emitted,      \* the chunks handed to sendChunk, in order
  progress,     \* the values bytesTransferred took, in order
  pipe,         \* frames on the channel, not yet at the receiver
  rcv,          \* the ReceivingTransfer: [status, chunks, bytes]
  blob          \* the Blob given to onTransferComplete (<<"none">> before)

serverVars == <<rooms, clientRooms, sock, sent, logged, pjLog>>
engineVars == <<dc, xfer, sendMap, calls, wire, rx, recvKeys, back>>
orchVars ==
  <<ws, pc, dataChannel, chan, isInitiator, uiState, wsOut, onErr, tornDown,
    got, applied>>
bytesVars == <<file, cfgChunk, snd, emitted, progress, pipe, rcv, blob>>
pauseVars == <<pauseAsked>>
pairVars == <<ep, up, down, didSend>>
vars == <<serverVars, engineVars, orchVars, bytesVars, pauseVars, pairVars>>
\* What the handlers of one component leave alone: the other components.
notServer == <<engineVars, orchVars, bytesVars, pauseVars, pairVars>>
notEngine == <<serverVars, orchVars, bytesVars, pauseVars, pairVars>>
notOrch == <<serverVars, engineVars, bytesVars, pauseVars, pairVars>>
notBytes == <<serverVars, engineVars, orchVars, pauseVars, pairVars>>
notPause == <<serverVars, orchVars, bytesVars, pairVars>>
\* The pair uses the server; its endpoints are WebRTCManagers of their own.
notPair == <<engineVars, orchVars, bytesVars, pauseVars>>

\* ------------------------------------------------------------ JS helpers
\* JavaScript truthiness of a room id read from clientRooms.get(clientId):
\* undefined and "" are both falsy.
Truthy(roomId) == roomId # NoRoom /\ roomId # ""

SeqToSet(s) == {s[i] : i \in 1..Len(s)}
SeqRemove(s, x) == SelectSeq(s, LAMBDA y : y # x)

\* Map.prototype.set on a Map of insertion-ordered keys: an existing key
\* keeps its place, a new key goes last.
MapSetKey(keys, k) == IF k \in SeqToSet(keys) THEN keys ELSE Append(keys, k)

\* ------------------------------------------------------------ storage.ts
\* getRoom: rooms.get(roomId) is undefined for an unknown id.
HasRoom(rs, r) == r \in DOMAIN rs

\* createRoom: returns the existing room, or sets a new empty one with
\* createdAt = Date.now(). The only use of createdAt is the comparison
\* (now - createdAt) > maxAge of cleanupEmptyRooms, so a room carries its
\* age = now - createdAt, in hours: 0, or maxAge + 1 for any greater age.
createRoom(rs, r) ==
  IF HasRoom(rs, r) THEN rs
  ELSE (r :> [clients |-> <<>>, age |-> 0]) @@ rs

RoomIsFullOffByOne(room) == Len(room.clients) > RoomLimit
\* addClientToRoom, line 90: room.clients.size >= 2
RoomIsFull(room) == Len(room.clients) >= RoomLimit

\* addClientToRoom: [ok, rooms]
addClientToRoom(rs, r, c) ==
  IF ~HasRoom(rs, r) THEN [ok |-> FALSE, rooms |-> rs]
  ELSE IF RoomIsFull(rs[r]) THEN [ok |-> FALSE, rooms |-> rs]
  ELSE [ok |-> TRUE,
        rooms |-> [rs EXCEPT ![r].clients = MapSetKey(@, c)]]

DeleteRoom(rs, r) == [x \in (DOMAIN rs) \ {r} |-> rs[x]]

RemoveKeepsEmptyRoom(rs, r, c) ==
  IF ~HasRoom(rs, r) THEN rs
  ELSE [rs EXCEPT ![r].clients = SeqRemove(@, c)]
\* removeClientFromRoom: delete the client, and the room when it is empty.
removeClientFromRoom(rs, r, c) ==
  IF ~HasRoom(rs, r) THEN rs
  ELSE LET rs1 == [rs EXCEPT ![r].clients = SeqRemove(@, c)]
       IN IF Len(rs1[r].clients) = 0 THEN DeleteRoom(rs1, r) ELSE rs1

\* getOtherClientInRoom: the first entry of the room, in insertion order,
\* whose id is not clientId; undefined when there is none or no room.
getOtherClientInRoom(rs, r, c) ==
  IF ~HasRoom(rs, r) THEN NoClient
  ELSE LET others == SeqRemove(rs[r].clients, c)
       IN IF Len(others) = 0 THEN NoClient ELSE others[1]

CleanupIgnoresClients(rs) ==
  LET dead == {r \in DOMAIN rs : rs[r].age > maxAge}
  IN [x \in (DOMAIN rs) \ dead |-> rs[x]]
\* cleanupEmptyRooms: drops every room with no client that is older than
\* maxAge (cleanupRoom only deletes the map entry).
cleanupEmptyRooms(rs) ==
  LET dead == {r \in DOMAIN rs :
                 Len(rs[r].clients) = 0 /\ rs[r].age > maxAge}
  IN [x \in (DOMAIN rs) \ dead |-> rs[x]]

\* storage.ts 111, 133: one console line per room the handler took out of
\* the map (RoomIds in a fixed order, as the Map is walked).
RECURSIVE LinesFor(_, _)
LinesFor(line, gone) ==
  IF gone = {} THEN << >>
  ELSE LET r == CHOOSE x \in gone : TRUE
       IN << [line |-> line, room |-> r] >> \o LinesFor(line, gone \ {r})
RoomLines(line, before, after) ==
  LinesFor(line, (DOMAIN before) \ (DOMAIN after))

\* --------------------------------------------------------------- routes
SendWhateverState(to, m) ==
  IF to # NoClient THEN << [to |-> to, msg |-> m] >> ELSE << >>
\* `if (x && x.readyState === WebSocket.OPEN) x.send(m)` : the message is
\* handed to the socket only when it is there and open.
SendIfOpen(to, m) ==
  IF to # NoClient /\ sock[to] = "open" THEN << [to |-> to, msg |-> m] >>
  ELSE << >>

PeerJoinedMsg == [type |-> "peer-joined", payload |-> "-"]
PeerLeftMsg == [type |-> "peer-left", payload |-> "-"]
ErrorMsg(text) == [type |-> "error", payload |-> text]

InitServer ==
  /\ rooms = << >>
  /\ clientRooms = << >>
  /\ sock = [c \in Clients |-> "unborn"]
  /\ sent = << >>
  /\ logged = << >>
  /\ pjLog = {}

\* wss.on('connection'): a fresh clientId; nothing else is touched.
Connect(c) ==
  /\ sock[c] = "unborn"
  /\ \A d \in Clients : d < c => sock[d] # "unborn"
  /\ sock' = [sock EXCEPT ![c] = "open"]
  /\ sent' = << >>
  /\ logged' = << >>
  /\ UNCHANGED <<rooms, clientRooms, pjLog>>

JoinRecordsAlways(added, c, r) == (c :> r) @@ clientRooms
\* routes 42-43: clientRooms.set(clientId, roomId) only when added.
JoinClientRooms(added, c, r) ==
  IF added THEN (c :> r) @@ clientRooms ELSE clientRooms

JoinNotifiesBoth(rs, r, c) ==
  LET o == getOtherClientInRoom(rs, r, c)
  IN IF o = NoClient THEN << >> ELSE << o, c >>
\* routes 46-50: peer-joined goes to the other client of the room.
JoinNotified(rs, r, c) ==
  LET o == getOtherClientInRoom(rs, r, c)
  IN IF o = NoClient THEN << >> ELSE << o >>

\* ws.on('message'), case 'join'.
Join(c, r) ==
  /\ sock[c] = "open"
  /\ LET rs1 == IF ~HasRoom(rooms, r) THEN createRoom(rooms, r) ELSE rooms
         res == addClientToRoom(rs1, r, c)
         tos == IF res.ok THEN JoinNotified(res.rooms, r, c) ELSE << >>
         out == IF res.ok
                THEN IF Len(tos) = 0 THEN << >>
                     ELSE SendIfOpen(tos[1], PeerJoinedMsg)
                          \o (IF Len(tos) > 1
                              THEN SendIfOpen(tos[2], PeerJoinedMsg) ELSE << >>)
                ELSE SendIfOpen(c, ErrorMsg("Room is full or unavailable"))
     IN /\ rooms' = res.rooms
        /\ clientRooms' = JoinClientRooms(res.ok, c, r)
        /\ sent' = out
        /\ pjLog' = pjLog \cup
             {[to |-> out[i].to, joiner |-> c, room |-> r] :
                i \in {j \in 1..Len(out) : out[j].msg = PeerJoinedMsg}}
  /\ logged' = << >>
  /\ UNCHANGED sock

RecordedRoom(c) == IF c \in DOMAIN clientRooms THEN clientRooms[c] ELSE NoRoom

\* routes 84: JSON.stringify(message) of the parsed envelope.
Forwarded(m) == [type |-> m.type, payload |-> m.payload]

RelayEvictsLoneSender(c, m) ==
  /\ sock[c] = "open"
  /\ LET roomId == RecordedRoom(c)
         other == getOtherClientInRoom(rooms, roomId, c)
         alone == Truthy(roomId) /\ ~(other # NoClient /\ sock[other] = "open")
     IN /\ sent' =
             IF ~Truthy(roomId) THEN SendIfOpen(c, ErrorMsg("Not in a room"))
             ELSE IF ~alone THEN SendIfOpen(other, Forwarded(m))
             ELSE SendIfOpen(c, ErrorMsg("No peer connected"))
        /\ rooms' = IF alone THEN removeClientFromRoom(rooms, roomId, c)
                    ELSE rooms
  /\ logged' = << >>
  /\ UNCHANGED <<clientRooms, sock, pjLog>>
\* ws.on('message'), case 'offer' | 'answer' | 'ice-candidate'.
Relay(c, m) ==
  /\ sock[c] = "open"
  /\ LET roomId == RecordedRoom(c)
         other == getOtherClientInRoom(rooms, roomId, c)
     IN sent' =
          IF ~Truthy(roomId) THEN SendIfOpen(c, ErrorMsg("Not in a room"))
          ELSE IF other # NoClient /\ sock[other] = "open"
               THEN SendIfOpen(other, Forwarded(m))
               ELSE SendIfOpen(c, ErrorMsg("No peer connected"))
  /\ logged' = << >>
  /\ UNCHANGED <<rooms, clientRooms, sock, pjLog>>

\* What else a client may send: text that JSON.parse rejects, and JSON
\* whose `type` is none of the four cases (an unknown tag, or a tag only
\* the server sends).
OtherInputs == {"not json", "{type:'hello'}", "{type:'peer-joined'}"}
Throws(input) == input = "not json"

\* ws.on('message') for such input: the `default` case only warns (98-99);
\* the catch block answers error{"Invalid message format"} (101-109).
OtherMessage(c, input) ==
  /\ sock[c] = "open"
  /\ sent' = IF Throws(input)
             THEN SendIfOpen(c, ErrorMsg("Invalid message format"))
             ELSE << >>
  /\ logged' = << >>
  /\ UNCHANGED <<rooms, clientRooms, sock, pjLog>>

\* The connection goes down: readyState leaves OPEN; the 'close' event is
\* dispatched later, other connections' handlers may run in between.
SocketDown(c) ==
  /\ sock[c] = "open"
  /\ sock' = [sock EXCEPT ![c] = "closing"]
  /\ sent' = << >>
  /\ pjLog' = {e \in pjLog : e.to # c /\ e.joiner # c}
  /\ logged' = << >>
  /\ UNCHANGED <<rooms, clientRooms>>

\* ws.on('close').
Disconnect(c) ==
  /\ sock[c] = "closing"
  /\ sock' = [sock EXCEPT ![c] = "closed"]
  /\ LET roomId == RecordedRoom(c)
     IN IF Truthy(roomId)
        THEN /\ sent' = SendIfOpen(getOtherClientInRoom(rooms, roomId, c),
                                   PeerLeftMsg)
             /\ rooms' = removeClientFromRoom(rooms, roomId, c)
             /\ logged' = RoomLines("Removed empty room", rooms, rooms')
             /\ clientRooms' = [x \in (DOMAIN clientRooms) \ {c} |-> clientRooms[x]]
        ELSE /\ sent' = << >>
             /\ logged' = << >>
             /\ UNCHANGED <<rooms, clientRooms>>
  /\ UNCHANGED pjLog

\* setInterval(() => this.cleanupEmptyRooms(), 5 min)
Sweep ==
  /\ rooms' = cleanupEmptyRooms(rooms)
  /\ logged' = RoomLines("Cleaned up room", rooms, rooms')
  /\ sent' = << >>
  /\ UNCHANGED <<clientRooms, sock, pjLog>>

\* Date.now() advances by more than maxAge: every room there is, is older
\* than maxAge.
Tick ==
  /\ rooms' = [r \in DOMAIN rooms |-> [rooms[r] EXCEPT !.age = maxAge + 1]]
  /\ sent' = << >>
  /\ logged' = << >>
  /\ UNCHANGED <<clientRooms, sock, pjLog>>

\* storage.createRoom(roomId) on its own (storage.ts 62-71): the room is
\* in the map with no client. routes never leaves it so (a join adds the
\* joiner in the same handler), but it is what the sweep is there for.
StorageCreateRoom(r) ==
  /\ ~HasRoom(rooms, r)
  /\ rooms' = createRoom(rooms, r)
  /\ sent' = << >>
  /\ logged' = << >>
  /\ UNCHANGED <<clientRooms, sock, pjLog>>

NextServer ==
  \/ \E c \in Clients : Connect(c) /\ UNCHANGED notServer
  \/ \E c \in Clients, r \in RoomIds : Join(c, r) /\ UNCHANGED notServer
  \/ \E c \in Clients, m \in RelayMsgs : Relay(c, m) /\ UNCHANGED notServer
  \/ \E c \in Clients, input \in OtherInputs :
       OtherMessage(c, input) /\ UNCHANGED notServer
  \/ \E c \in Clients : SocketDown(c) /\ UNCHANGED notServer
  \/ \E c \in Clients : Disconnect(c) /\ UNCHANGED notServer
  \/ Sweep /\ UNCHANGED notServer
  \/ Tick /\ UNCHANGED notServer

\* The server with rooms that storage may hold empty.
NextStorage ==
  \/ NextServer
  \/ \E r \in RoomIds : StorageCreateRoom(r) /\ UNCHANGED notServer

\* ======================================================================
\* Transfer engine: webrtc-manager.ts, class FileTransferManager
\* ======================================================================
\* ---------------------------------------------------------------- bounds
\* Files handed to sendFiles over the life of the engine, all calls together.
MaxTransfers == 2

\* ----------------------------------------------- configuration (schema.ts)
\* DEFAULT_P2P_CONFIG.chunkSize (64 KiB) and .maxBufferedAmount (256 KiB)
\* are the configuration surface; the engine is run here with a small
\* configuration: chunks of 2 bytes, a threshold of 2 chunks.
chunkSize == 2
maxBufferedAmount == 4
\* Bytes a control frame (a JSON string) adds to bufferedAmount.
ControlSize == 1

\* File sizes: the empty file, and two chunks with a short last one.
FileSizes == {0, 3}

RECURSIVE SumLen(_)
SumLen(ns) == IF ns = << >> THEN 0 ELSE ns[1] + SumLen(Tail(ns))

Min(a, b) == IF a < b THEN a ELSE b

\* Math.ceil(file.size / chunkSize), line 379
TotalChunks(size) == (size + chunkSize - 1) \div chunkSize

\* Frames: control frames carry the file id; a binary frame carries bytes
\* only -- `id` and `idx` of a chunk frame name which bytes they are (chunk
\* idx of file id) and are read by no handler.
MetadataFrame(f, size) ==
  [type |-> "file-metadata", id |-> f, idx |-> TotalChunks(size), len |-> size]
ChunkFrame(f, k, n) == [type |-> "chunk", id |-> f, idx |-> k, len |-> n]
CompleteFrame(f) == [type |-> "transfer-complete", id |-> f, idx |-> 0, len |-> 0]
CancelFrame(f) == [type |-> "transfer-cancel", id |-> f, idx |-> 0, len |-> 0]

FrameSize(m) == IF m.type = "chunk" THEN m.len ELSE ControlSize

RECURSIVE SumSize(_)
SumSize(fs) == IF fs = << >> THEN 0 ELSE FrameSize(fs[1]) + SumSize(Tail(fs))

\* The state of the sending engine that its handlers read and write.
SenderState == [xfer |-> xfer, sendMap |-> sendMap, calls |-> calls, wire |-> wire]

\* WebRTCManager.getBufferedAmount: dataChannel.bufferedAmount, the bytes
\* handed to send() that the channel has not transmitted yet.
getBufferedAmount(w) == SumSize(w)

\* What a transfer has put on the wire so far: its file-metadata, how many
\* of its chunks, its transfer-complete, its transfer-cancel.
NothingOut == [meta |-> FALSE, chunks |-> 0, complete |-> FALSE, cancel |-> FALSE]
Record(out, m) ==
  CASE m.type = "file-metadata" -> [out EXCEPT !.meta = TRUE]
    [] m.type = "chunk" -> [out EXCEPT !.chunks = @ + 1]
    [] m.type = "transfer-complete" -> [out EXCEPT !.complete = TRUE]
    [] m.type = "transfer-cancel" -> [out EXCEPT !.cancel = TRUE]

ChannelSendAlways(E, m) ==
  [E EXCEPT !.wire = Append(@, m), !.xfer[m.id].out = Record(@, m)]
\* WebRTCManager.sendControlMessage / sendChunk: the frame goes to the
\* channel only if readyState is 'open', else it is dropped.
ChannelSend(E, m) ==
  IF dc = "open"
  THEN [E EXCEPT !.wire = Append(@, m), !.xfer[m.id].out = Record(@, m)]
  ELSE E

RECURSIVE sendNextChunk(_, _), sendFile(_, _, _), onComplete(_, _)

\* The promise of sendFile resolves: the `for` loop of sendFiles goes on
\* with the next file of its queue, or the call is over.
onComplete(E, k) ==
  IF E.calls[k].queue = << >>
  THEN [E EXCEPT !.calls[k].state = "resolved"]
  ELSE sendFile([E EXCEPT !.calls[k].queue = Tail(@)], k, Head(E.calls[k].queue))

ResolvesBeforeComplete(E, f) ==
  LET E1 == [E EXCEPT !.xfer[f].status = "completed",
                      !.xfer[f].bytes = E.xfer[f].size,
                      !.xfer[f].pc = "idle"]
  IN ChannelSend(onComplete(E1, E.xfer[f].call), CompleteFrame(f))
\* The completion branch of sendNextChunk (lines 448-465): status
\* completed, transfer-complete to the peer, then the promise resolves.
AllChunksSent(E, f) ==
  LET E1 == [E EXCEPT !.xfer[f].status = "completed",
                      !.xfer[f].bytes = E.xfer[f].size,
                      !.xfer[f].pc = "idle"]
  IN onComplete(ChannelSend(E1, CompleteFrame(f)), E.xfer[f].call)

\* sendNextChunk up to its first suspension (lines 433-469): returns if the
\* transfer is not transferring; re-arms a 50 ms timer under backpressure;
\* completes when every chunk is out; else starts reading the next chunk.
sendNextChunk(E, f) ==
  LET t == E.xfer[f]
  IN IF t.status # "transferring" THEN [E EXCEPT !.xfer[f].pc = "idle"]
     ELSE IF getBufferedAmount(E.wire) > maxBufferedAmount
          THEN [E EXCEPT !.xfer[f].pc = "timer"]
     ELSE IF t.idx * chunkSize >= t.size THEN AllChunksSent(E, f)
     ELSE [E EXCEPT !.xfer[f].pc = "read"]

\* sendFile (lines 376-420): a fresh id, the record (pending), the
\* file-metadata frame, status transferring, then sendChunks.
sendFile(E, k, size) ==
  LET f == Len(E.xfer) + 1
      t == [size |-> size, status |-> "transferring", idx |-> 0, bytes |-> 0,
            pc |-> "idle", call |-> k, out |-> NothingOut]
      E1 == [E EXCEPT !.xfer = Append(@, t), !.sendMap = @ \cup {f}]
  IN sendNextChunk(ChannelSend(E1, MetadataFrame(f, size)), f)

CancelKeepsRecord(E, f) ==
  IF f \in E.sendMap THEN [E EXCEPT !.xfer[f].status = "cancelled"] ELSE E
\* handleTransferCancel, sending half (lines 585-590)
CancelSending(E, f) ==
  IF f \in E.sendMap
  THEN [E EXCEPT !.xfer[f].status = "cancelled", !.sendMap = @ \ {f}]
  ELSE E

SetSender(E) ==
  /\ xfer' = E.xfer
  /\ sendMap' = E.sendMap
  /\ calls' = E.calls
  /\ wire' = E.wire

InitEngine ==
  /\ dc = "connecting"
  /\ xfer = << >>
  /\ sendMap = {}
  /\ calls = << >>
  /\ wire = << >>
  /\ rx = << >>
  /\ recvKeys = << >>
  /\ back = << >>
  /\ pauseAsked = {}

RECURSIVE QueuedFrom(_)
QueuedFrom(cs) == IF cs = << >> THEN 0 ELSE Len(cs[1].queue) + QueuedFrom(Tail(cs))

\* sendFiles(files), lines 369-374, up to the first suspension.
SendFiles(q) ==
  /\ Len(xfer) + QueuedFrom(calls) + Len(q) <= MaxTransfers
  /\ LET k == Len(calls) + 1
         E == [SenderState EXCEPT
                 !.calls = Append(@, [queue |-> Tail(q), state |-> "running"])]
     IN SetSender(sendFile(E, k, Head(q)))
  /\ UNCHANGED <<dc, rx, recvKeys, back>>

\* A timer set by sendNextChunk (setTimeout 0 after a chunk, 50 ms under
\* backpressure) fires.
TimerFires(f) ==
  /\ xfer[f].pc = "timer"
  /\ SetSender(sendNextChunk(SenderState, f))
  /\ UNCHANGED <<dc, rx, recvKeys, back>>

\* `await chunk.arrayBuffer()` is fulfilled: lines 472-489. The status is
\* not read again before the chunk is sent.
ChunkRead(f) ==
  /\ xfer[f].pc = "read"
  /\ LET t == xfer[f]
         start == t.idx * chunkSize
         end == Min(start + chunkSize, t.size)
         E1 == ChannelSend(SenderState, ChunkFrame(f, t.idx, end - start))
     IN SetSender([E1 EXCEPT !.xfer[f].idx = t.idx + 1,
                             !.xfer[f].bytes = end,
                             !.xfer[f].pc = "timer"])
  /\ UNCHANGED <<dc, rx, recvKeys, back>>

\* The cancel button of a transfer card at S (transfer-card.tsx 43: shown
\* while the transfer is pending, transferring or paused), then
\* cancelTransfer(fileId), lines 600-607.
canCancel(status) == status \in {"pending", "transferring", "paused"}

CancelAtSender(f) ==
  /\ canCancel(xfer[f].status)
  /\ SetSender(CancelSending(ChannelSend(SenderState, CancelFrame(f)), f))
  /\ UNCHANGED <<dc, rx, recvKeys, back>>

\* ---- receiving engine
HasRx(f) == f \in SeqToSet(recvKeys)

\* handleFileMetadata, lines 520-538
handleFileMetadata(m) ==
  /\ rx' = (m.id :> [size |-> m.len, total |-> m.len, status |-> "transferring",
                     bytes |-> 0, chunks |-> << >>, expected |-> m.idx]) @@ rx
  /\ recvKeys' = MapSetKey(recvKeys, m.id)

\* handleChunk, lines 540-569: the first transfer of the map, in insertion
\* order, whose status is transferring.
ActiveTransfer ==
  LET act == SelectSeq(recvKeys, LAMBDA f : rx[f].status = "transferring")
  IN IF act = << >> THEN 0 ELSE act[1]

handleChunk(m) ==
  /\ IF ActiveTransfer = 0 THEN rx' = rx
     ELSE rx' = [rx EXCEPT ![ActiveTransfer].chunks = Append(@, m.len),
                           ![ActiveTransfer].bytes = @ + m.len]
  /\ UNCHANGED recvKeys

\* handleTransferComplete, lines 571-582
handleTransferComplete(m) ==
  /\ IF HasRx(m.id)
     THEN rx' = [rx EXCEPT ![m.id].status = "completed",
                           ![m.id].bytes = rx[m.id].total]
     ELSE rx' = rx
  /\ UNCHANGED recvKeys

\* handleTransferCancel, receiving half (lines 592-597)
CancelReceiving(f) ==
  IF HasRx(f)
  THEN /\ rx' = [rx EXCEPT ![f].status = "cancelled"]
       /\ recvKeys' = SeqRemove(recvKeys, f)
  ELSE UNCHANGED <<rx, recvKeys>>

\* dataChannel.onmessage at R: the next frame, in send order.
DeliverToReceiver ==
  /\ dc = "open"
  /\ wire # << >>
  /\ wire' = Tail(wire)
  /\ LET m == Head(wire)
     IN CASE m.type = "file-metadata" -> handleFileMetadata(m)
          [] m.type = "chunk" -> handleChunk(m)
          [] m.type = "transfer-complete" -> handleTransferComplete(m)
          [] m.type = "transfer-cancel" -> CancelReceiving(m.id)
  /\ UNCHANGED <<dc, xfer, sendMap, calls, back>>

\* The cancel button of a transfer card at R, then cancelTransfer(fileId).
CancelAtReceiver(f) ==
  /\ canCancel(rx[f].status)
  /\ back' = IF dc = "open" THEN Append(back, f) ELSE back
  /\ CancelReceiving(f)
  /\ UNCHANGED <<dc, xfer, sendMap, calls, wire>>

\* dataChannel.onmessage at S: a transfer-cancel of the peer.
DeliverToSender ==
  /\ dc = "open"
  /\ back # << >>
  /\ back' = Tail(back)
  /\ SetSender(CancelSending(SenderState, Head(back)))
  /\ UNCHANGED <<dc, rx, recvKeys>>

\* readyState of the channel: connecting -> open -> closed. The two ends
\* of the channel change state together: an end that is open while the
\* other is not yet sees what it would see with the other open and idle.
ChannelOpens ==
  /\ dc = "connecting"
  /\ dc' = "open"
  /\ UNCHANGED <<xfer, sendMap, calls, wire, rx, recvKeys, back>>

\* dataChannel.onclose; what is still on the wire is lost.
ChannelCloses ==
  /\ dc = "open"
  /\ dc' = "closed"
  /\ UNCHANGED <<xfer, sendMap, calls, wire, rx, recvKeys, back>>

Queues == UNION {[1..n -> FileSizes] : n \in 1..MaxTransfers}

NextEngine ==
  \/ \E q \in Queues : SendFiles(q) /\ UNCHANGED notEngine
  \/ \E f \in 1..Len(xfer) : TimerFires(f) /\ UNCHANGED notEngine
  \/ \E f \in 1..Len(xfer) : ChunkRead(f) /\ UNCHANGED notEngine
  \/ \E f \in 1..Len(xfer) : CancelAtSender(f) /\ UNCHANGED notEngine
  \/ DeliverToReceiver /\ UNCHANGED notEngine
  \/ \E f \in DOMAIN rx : CancelAtReceiver(f) /\ UNCHANGED notEngine
  \/ DeliverToSender /\ UNCHANGED notEngine
  \/ ChannelOpens /\ UNCHANGED notEngine
  \/ ChannelCloses /\ UNCHANGED notEngine

\* ---- a chunk that cannot be read or sent
\* The catch of sendNextChunk (490-497): `await chunk.arrayBuffer()` is
\* rejected, or sendChunk throws. Status error, onError, and the promise
\* of sendFile is rejected: the `await this.sendFile(file)` of sendFiles
\* (371-373) throws and its `for` loop is left with its queue unsent.
ChunkReadFails(f) ==
  /\ xfer[f].pc = "read"
  /\ xfer' = [xfer EXCEPT ![f].status = "error", ![f].pc = "idle"]
  /\ calls' = [calls EXCEPT ![xfer[f].call].state = "rejected"]
  /\ UNCHANGED <<dc, sendMap, wire, rx, recvKeys, back, pauseAsked>>

\* The engines with chunks that may fail, no cancel and a channel that
\* stays open once opened.
NextFail ==
  \/ \E q \in Queues : SendFiles(q) /\ UNCHANGED notEngine
  \/ \E f \in 1..Len(xfer) : TimerFires(f) /\ UNCHANGED notEngine
  \/ \E f \in 1..Len(xfer) : ChunkRead(f) /\ UNCHANGED notEngine
  \/ \E f \in 1..Len(xfer) : ChunkReadFails(f) /\ UNCHANGED notPause
  \/ DeliverToReceiver /\ UNCHANGED notEngine
  \/ ChannelOpens /\ UNCHANGED notEngine

\* ---- pause and resume
\* transfer-card.tsx 41: when the pause button applies.
canPause(status) == status = "transferring"

\* A pause of transfer f is asked for. The engine has no pause method and
\* home.tsx passes no onPause to TransferCard; the one place a pause can
\* reach the engine is a transfer-pause{fileId} control message (schema.ts
\* 67), and the switch of handleControlMessage (504-518) has no case for
\* it: nothing changes.
PauseRequest(f) ==
  /\ canPause(xfer[f].status)
  /\ f \notin pauseAsked
  /\ pauseAsked' = pauseAsked \cup {f}
  /\ UNCHANGED engineVars

\* A resume is asked for: transfer-resume{fileId} (schema.ts 68), no case
\* in handleControlMessage either.
ResumeRequest(f) ==
  /\ f \in pauseAsked
  /\ pauseAsked' = pauseAsked \ {f}
  /\ UNCHANGED engineVars

\* The sending engine with pause and resume requests, no cancel and a
\* channel that stays open once opened.
NextPause ==
  \/ \E q \in Queues : SendFiles(q) /\ UNCHANGED notEngine
  \/ \E f \in 1..Len(xfer) : TimerFires(f) /\ UNCHANGED notEngine
  \/ \E f \in 1..Len(xfer) : ChunkRead(f) /\ UNCHANGED notEngine
  \/ DeliverToReceiver /\ UNCHANGED notEngine
  \/ ChannelOpens /\ UNCHANGED notEngine
  \/ \E f \in 1..Len(xfer) : PauseRequest(f) /\ UNCHANGED notPause
  \/ \E f \in 1..Len(xfer) : ResumeRequest(f) /\ UNCHANGED notPause

\* ======================================================================
\* Orchestrator: webrtc-manager.ts, class WebRTCManager
\* ======================================================================
\* ---------------------------------------------------------------- bounds
\* ice-candidate messages the server delivers to the endpoint.
MaxCandidates == 2

Null == "null"
\* this.pc is null, or an RTCPeerConnection without descriptions yet.
NoPeerConnection ==
  [made |-> FALSE, local |-> FALSE, remote |-> FALSE, chain |-> << >>,
   conn |-> "new", offered |-> FALSE]
NewPeerConnection ==
  [made |-> TRUE, local |-> FALSE, remote |-> FALSE, chain |-> << >>,
   conn |-> "new", offered |-> FALSE]

\* Operations of an RTCPeerConnection run one after the other, in the order
\* they were called (its operations chain).
CreateOfferOp == [op |-> "createOffer", c |-> 0]
SetRemoteOfferOp == [op |-> "setRemoteDescription(offer)", c |-> 0]
SetRemoteAnswerOp == [op |-> "setRemoteDescription(answer)", c |-> 0]
AddIceCandidateOp(c) == [op |-> "addIceCandidate", c |-> c]

SignalingTypes == {"peer-joined", "offer", "answer", "ice-candidate",
                   "peer-left", "error"}

InitOrch ==
  /\ ws = Null
  /\ pc = NoPeerConnection
  /\ dataChannel = Null
  /\ chan = "none"
  /\ isInitiator = FALSE
  /\ uiState = "none"
  /\ wsOut = << >>
  /\ onErr = << >>
  /\ tornDown = FALSE
  /\ got = << >>
  /\ applied = << >>

\* ws.send guarded by `this.ws && this.ws.readyState === WebSocket.OPEN`
WsSendIfOpen(m) == IF ws = "open" THEN << m >> ELSE << >>

\* connect(roomId), lines 35-42
OrchConnect ==
  /\ tornDown' = FALSE
  /\ ws \in {Null, "closed"}
  /\ ws' = "connecting"
  /\ uiState' = "none"
  /\ wsOut' = << >>
  /\ onErr' = << >>
  /\ UNCHANGED <<pc, dataChannel, chan, isInitiator, got, applied>>

\* ws.onopen, lines 44-51
WsOpen ==
  /\ tornDown' = tornDown
  /\ ws = "connecting"
  /\ ws' = "open"
  /\ uiState' = "connecting"
  /\ wsOut' = << "join" >>
  /\ onErr' = << >>
  /\ UNCHANGED <<pc, dataChannel, chan, isInitiator, got, applied>>

\* dataChannel.close() on a channel that is connecting or open starts its
\* closing procedure; the close event comes later.
Closed(c) == IF c \in {"connecting", "open"} THEN "closing" ELSE c

CleanupLeavesSocket ==
  /\ dataChannel' = Null
  /\ chan' = IF dataChannel # Null THEN Closed(chan) ELSE chan
  /\ pc' = NoPeerConnection
  /\ ws' = ws
\* cleanup(), lines 317-332
cleanup ==
  /\ dataChannel' = Null
  /\ chan' = IF dataChannel # Null THEN Closed(chan) ELSE chan
  /\ pc' = NoPeerConnection
  /\ ws' = IF ws = "open" THEN Null ELSE ws

\* createPeerConnection (113-169) with the role just set, then the first
\* call on the new connection: createOffer (216-240) or handleOffer
\* (242-268), each up to its first await.
createPeerConnection(initiator, firstOp) ==
  /\ isInitiator' = initiator
  /\ pc' = [NewPeerConnection EXCEPT !.chain = << firstOp >>]
  /\ dataChannel' = IF initiator THEN "created" ELSE dataChannel
  /\ chan' = IF initiator THEN "connecting" ELSE chan

\* handleIceCandidate (281-295) up to its await: without a peer connection
\* it returns; else the candidate is handed to addIceCandidate.
handleIceCandidate(c) ==
  /\ got' = Append(got, c)
  /\ pc' = IF pc = NoPeerConnection THEN pc
           ELSE [pc EXCEPT !.chain = Append(@, AddIceCandidateOp(c))]

\* ws.onmessage -> handleSignalingMessage (53-61, 75-111), up to the first
\* await of the handler. peer-joined and offer are handled whenever they
\* arrive: createPeerConnection assigns this.pc a new RTCPeerConnection
\* whether or not there is one (the one before is neither closed nor kept).
WsMessage(type) ==
  /\ tornDown' = (tornDown \/ type = "peer-left")
  /\ ws = "open"
  /\ wsOut' = << >>
  /\ onErr' = IF type = "error" THEN << "server error" >> ELSE << >>
  /\ CASE type = "peer-joined" ->
            /\ createPeerConnection(TRUE, CreateOfferOp)
            /\ UNCHANGED <<ws, uiState, got, applied>>
       [] type = "offer" ->
            /\ createPeerConnection(FALSE, SetRemoteOfferOp)
            /\ UNCHANGED <<ws, uiState, got, applied>>
       [] type = "answer" ->
            \* handleAnswer, 270-279; a further answer arrives once the
            \* one before it has been handled
            /\ SetRemoteAnswerOp \notin SeqToSet(pc.chain)
            /\ pc' = IF pc = NoPeerConnection THEN pc
                     ELSE [pc EXCEPT !.chain = Append(@, SetRemoteAnswerOp)]
            /\ uiState' = uiState
            /\ UNCHANGED <<ws, dataChannel, chan, isInitiator, got, applied>>
       [] type = "ice-candidate" ->
            /\ Len(got) < MaxCandidates
            /\ handleIceCandidate(Len(got) + 1)
            /\ UNCHANGED <<ws, dataChannel, chan, isInitiator, uiState,
                           applied>>
       [] type = "peer-left" ->
            /\ uiState' = "peer-left"
            /\ cleanup
            /\ UNCHANGED <<isInitiator, got, applied>>
       [] type = "error" ->
            /\ uiState' = "error"
            /\ UNCHANGED <<ws, pc, dataChannel, chan, isInitiator, got,
                           applied>>

\* The operation at the head of the peer connection's chain settles and the
\* handler that awaited it runs on.
OpSettles ==
  /\ tornDown' = tornDown
  /\ pc # NoPeerConnection
  /\ pc.chain # << >>
  /\ LET o == Head(pc.chain)
         rest == [pc EXCEPT !.chain = Tail(@)]
     IN CASE o.op = "createOffer" ->
               \* createOffer, setLocalDescription, send the offer (221-235)
               /\ pc' = [rest EXCEPT !.local = TRUE, !.offered = (ws = "open")]
               /\ wsOut' = WsSendIfOpen("offer")
               /\ onErr' = << >>
               /\ UNCHANGED <<uiState, applied>>
          [] o.op = "setRemoteDescription(offer)" ->
               \* setRemoteDescription, createAnswer, setLocalDescription,
               \* send the answer (246-263)
               /\ pc' = [rest EXCEPT !.remote = TRUE, !.local = TRUE]
               /\ wsOut' = WsSendIfOpen("answer")
               /\ onErr' = << >>
               /\ UNCHANGED <<uiState, applied>>
          [] o.op = "setRemoteDescription(answer)" ->
               \* an answer is accepted in state have-local-offer only;
               \* else the promise is rejected and handleAnswer calls
               \* onError, which changes no connection state (273-278)
               /\ pc' = IF pc.local /\ ~pc.remote
                        THEN [rest EXCEPT !.remote = TRUE] ELSE rest
               /\ wsOut' = << >>
               /\ onErr' = IF pc.local /\ ~pc.remote THEN << >>
                          ELSE << "Failed to handle answer" >>
               /\ UNCHANGED <<uiState, applied>>
          [] o.op = "addIceCandidate" ->
               \* addIceCandidate is rejected (InvalidStateError) while the
               \* remote description is null; the catch only logs (290-294)
               /\ pc' = rest
               /\ applied' = IF pc.remote THEN Append(applied, o.c) ELSE applied
               /\ wsOut' = << >>
               /\ onErr' = << >>
               /\ UNCHANGED uiState
  /\ UNCHANGED <<ws, dataChannel, chan, isInitiator, got>>

\* ws.onerror (63-67): the socket failed; its close event follows.
WsError ==
  /\ tornDown' = tornDown
  /\ ws \in {"connecting", "open"}
  /\ ws' = "failed"
  /\ uiState' = "error"
  /\ wsOut' = << >>
  /\ onErr' = << "WebSocket connection error" >>
  /\ UNCHANGED <<pc, dataChannel, chan, isInitiator, got, applied>>

WsCloseKeepsTransport ==
  /\ tornDown' = TRUE
  /\ ws \in {"connecting", "open", "failed"}
  /\ ws' = "closed"
  /\ wsOut' = << >>
  /\ onErr' = << >>
  /\ UNCHANGED <<pc, dataChannel, chan, isInitiator, uiState, got, applied>>
\* ws.onclose (69-72): the socket went down; cleanup() finds it not open.
WsClose ==
  /\ tornDown' = TRUE
  /\ ws \in {"connecting", "open", "failed"}
  /\ dataChannel' = Null
  /\ chan' = IF dataChannel # Null THEN Closed(chan) ELSE chan
  /\ pc' = NoPeerConnection
  /\ ws' = "closed"
  /\ wsOut' = << >>
  /\ onErr' = << >>
  /\ UNCHANGED <<isInitiator, uiState, got, applied>>

\* pc.onconnectionstatechange (142-157). The transport connects once both
\* descriptions are set, may lose the peer and find it again or fail.
\* pc.close() fires no event, so 'closed' never reaches the handler.
ConnTransitions ==
  {<<"new", "connected">>, <<"connected", "disconnected">>,
   <<"disconnected", "connected">>, <<"disconnected", "failed">>}
ReportedFor(conn) ==
  CASE conn = "connected" -> "connected"
    [] conn \in {"disconnected", "failed"} -> "error"
    [] conn = "closed" -> "disconnected"

ConnectionStateChange(to) ==
  /\ tornDown' = tornDown
  /\ pc.made /\ pc.local /\ pc.remote
  /\ <<pc.conn, to>> \in ConnTransitions
  /\ pc' = [pc EXCEPT !.conn = to]
  /\ uiState' = ReportedFor(to)
  /\ wsOut' = << >>
  /\ onErr' = << >>
  /\ UNCHANGED <<ws, dataChannel, chan, isInitiator, got, applied>>

\* pc.ondatachannel at the answerer (163-167): the channel the initiator
\* created arrives once the transport is up.
OnDataChannel ==
  /\ tornDown' = tornDown
  /\ pc.made /\ ~isInitiator /\ pc.conn = "connected"
  /\ dataChannel = Null
  /\ dataChannel' = "created"
  /\ chan' = "connecting"
  /\ wsOut' = << >>
  /\ onErr' = << >>
  /\ UNCHANGED <<ws, pc, isInitiator, uiState, got, applied>>

\* dataChannel.onopen (186-189)
DataChannelOnOpen ==
  /\ tornDown' = tornDown
  /\ chan = "connecting"
  /\ pc.made /\ pc.conn = "connected"
  /\ chan' = "open"
  /\ uiState' = "connected"
  /\ wsOut' = << >>
  /\ onErr' = << >>
  /\ UNCHANGED <<ws, pc, dataChannel, isInitiator, got, applied>>

\* dataChannel.onclose (210-213): the channel was closed by cleanup() or by
\* the peer.
DataChannelOnClose ==
  /\ tornDown' = tornDown
  /\ chan \in {"open", "closing"}
  /\ chan' = "closed"
  /\ uiState' = "disconnected"
  /\ wsOut' = << >>
  /\ onErr' = << >>
  /\ UNCHANGED <<ws, pc, dataChannel, isInitiator, got, applied>>

\* disconnect(), lines 334-337
OrchDisconnect ==
  /\ tornDown' = TRUE
  /\ ws # Null
  /\ cleanup
  /\ uiState' = "disconnected"
  /\ wsOut' = << >>
  /\ onErr' = << >>
  /\ UNCHANGED <<isInitiator, got, applied>>

NextOrch ==
  \/ OrchConnect /\ UNCHANGED notOrch
  \/ WsOpen /\ UNCHANGED notOrch
  \/ \E type \in SignalingTypes : WsMessage(type) /\ UNCHANGED notOrch
  \/ OpSettles /\ UNCHANGED notOrch
  \/ WsError /\ UNCHANGED notOrch
  \/ WsClose /\ UNCHANGED notOrch
  \/ \E to \in {"connected", "disconnected", "failed"} :
       ConnectionStateChange(to) /\ UNCHANGED notOrch
  \/ OnDataChannel /\ UNCHANGED notOrch
  \/ DataChannelOnOpen /\ UNCHANGED notOrch
  \/ DataChannelOnClose /\ UNCHANGED notOrch
  \/ OrchDisconnect /\ UNCHANGED notOrch

\* ======================================================================
\* Two endpoints that connect to the same room through the server:
\* webrtc-manager.ts (WebRTCManager) twice, routes and storage once.
\* Neither endpoint leaves, the sockets stay up, and the transport accepts
\* every description and candidate.
\* ======================================================================
\* ---------------------------------------------------------------- bounds
\* ice candidates each peer connection gathers.
MaxGathered == 1

Endpoints == {c \in Clients : c <= RoomLimit}
PairRoom == "room1"
JoinMsg == [type |-> "join", payload |-> PairRoom]
OfferMsg == [type |-> "offer", payload |-> "sdp1"]
AnswerMsg == [type |-> "answer", payload |-> "sdp2"]
CandidateMsg == [type |-> "ice-candidate", payload |-> "cand1"]

\* A WebRTCManager whose connect() has been called (35-42).
NewEndpoint ==
  [ws |-> "connecting", pc |-> NoPeerConnection, dataChannel |-> Null,
   chan |-> "none", isInitiator |-> FALSE, uiState |-> "none",
   gathered |-> 0, applied |-> 0]

InitPair ==
  /\ ep = [e \in Endpoints |-> NewEndpoint]
  /\ up = [e \in Endpoints |-> << >>]
  /\ down = [e \in Endpoints |-> << >>]
  /\ didSend = {}

\* `if (this.ws && this.ws.readyState === WebSocket.OPEN) this.ws.send(m)`
EpSend(s, m) == IF s.ws = "open" THEN << m >> ELSE << >>

\* handleSignalingMessage (75-111) up to the first await of the handler.
EpOnMessage(s, m) ==
  CASE m.type = "peer-joined" ->
         [s EXCEPT !.isInitiator = TRUE,
                   !.pc = [NewPeerConnection EXCEPT !.chain = << CreateOfferOp >>],
                   !.dataChannel = "created",
                   !.chan = "connecting"]
    [] m.type = "offer" ->
         [s EXCEPT !.isInitiator = FALSE,
                   !.pc = [NewPeerConnection EXCEPT
                             !.chain = << SetRemoteOfferOp >>]]
    [] m.type = "answer" ->
         IF s.pc.made
         THEN [s EXCEPT !.pc.chain = Append(@, SetRemoteAnswerOp)] ELSE s
    [] m.type = "ice-candidate" ->
         IF s.pc.made
         THEN [s EXCEPT !.pc.chain = Append(@, AddIceCandidateOp(0))] ELSE s
    [] m.type = "peer-left" ->
         [s EXCEPT !.uiState = "peer-left",
                   !.dataChannel = Null,
                   !.chan = IF s.dataChannel # Null THEN Closed(@) ELSE @,
                   !.pc = NoPeerConnection,
                   !.ws = IF @ = "open" THEN Null ELSE @]
    [] m.type = "error" -> [s EXCEPT !.uiState = "error"]

OfferNotApplied(p) == p
\* createOffer 221-222: `await this.pc.setLocalDescription(offer)`
AfterCreateOffer(p) == [p EXCEPT !.local = TRUE]

\* The operation at the head of the chain settles and its handler runs on:
\* [ep, out], the endpoint after it and what it handed to ws.send.
EpOpSettles(s) ==
  LET o == Head(s.pc.chain)
      rest == [s.pc EXCEPT !.chain = Tail(@)]
  IN CASE o.op = "createOffer" ->
            [ep |-> [s EXCEPT !.pc = [AfterCreateOffer(rest) EXCEPT
                                        !.offered = (s.ws = "open")]],
             out |-> EpSend(s, OfferMsg)]
       [] o.op = "setRemoteDescription(offer)" ->
            [ep |-> [s EXCEPT !.pc = [rest EXCEPT !.remote = TRUE,
                                                  !.local = TRUE]],
             out |-> EpSend(s, AnswerMsg)]
       [] o.op = "setRemoteDescription(answer)" ->
            [ep |-> [s EXCEPT !.pc = IF s.pc.local /\ ~s.pc.remote
                                     THEN [rest EXCEPT !.remote = TRUE]
                                     ELSE rest],
             out |-> << >>]
       [] o.op = "addIceCandidate" ->
            [ep |-> [s EXCEPT !.pc = rest,
                              !.applied = IF s.pc.remote THEN @ + 1 ELSE @],
             out |-> << >>]

Sends(e, out) == {<<e, out[i].type>> : i \in 1..Len(out)}

\* wss.on('connection') for the socket of endpoint e.
PairAccept(e) ==
  /\ Connect(e)
  /\ UNCHANGED pairVars

\* ws.onopen (44-51): report connecting, send join.
PairWsOpen(e) ==
  /\ ep[e].ws = "connecting"
  /\ sock[e] = "open"
  /\ ep' = [ep EXCEPT ![e].ws = "open", ![e].uiState = "connecting"]
  /\ up' = [up EXCEPT ![e] = Append(@, JoinMsg)]
  /\ didSend' = didSend \cup {<<e, "join">>}
  /\ UNCHANGED <<down, serverVars>>

\* ws.on('message') at the server for the next message of endpoint e; what
\* the handler sends goes to the addressee's socket.
SentTo(out, x) == SelectSeq(out, LAMBDA o : o.to = x)
PairServer(e) ==
  /\ up[e] # << >>
  /\ LET m == Head(up[e])
     IN IF m.type = "join" THEN Join(e, m.payload) ELSE Relay(e, m)
  /\ up' = [up EXCEPT ![e] = Tail(@)]
  /\ down' = [x \in Endpoints |->
                down[x] \o [i \in 1..Len(SentTo(sent', x)) |->
                              SentTo(sent', x)[i].msg]]
  /\ UNCHANGED <<ep, didSend>>

\* ws.onmessage at endpoint e (53-61).
PairWsMessage(e) ==
  /\ ep[e].ws = "open"
  /\ down[e] # << >>
  /\ ep' = [ep EXCEPT ![e] = EpOnMessage(@, Head(down[e]))]
  /\ down' = [down EXCEPT ![e] = Tail(@)]
  /\ UNCHANGED <<up, didSend, serverVars>>

PairOpSettles(e) ==
  /\ ep[e].pc.made
  /\ ep[e].pc.chain # << >>
  /\ LET r == EpOpSettles(ep[e])
     IN /\ ep' = [ep EXCEPT ![e] = r.ep]
        /\ up' = [up EXCEPT ![e] = @ \o r.out]
        /\ didSend' = didSend \cup Sends(e, r.out)
  /\ UNCHANGED <<down, serverVars>>

\* pc.onicecandidate (124-139): gathering starts with the local description.
PairIceCandidate(e) ==
  /\ ep[e].pc.made /\ ep[e].pc.local
  /\ ep[e].gathered < MaxGathered
  /\ LET out == EpSend(ep[e], CandidateMsg)
     IN /\ up' = [up EXCEPT ![e] = @ \o out]
        /\ didSend' = didSend \cup Sends(e, out)
  /\ ep' = [ep EXCEPT ![e].gathered = @ + 1]
  /\ UNCHANGED <<down, serverVars>>

\* The transport connects once both ends have both descriptions and a
\* candidate of the peer.
TransportUp ==
  \A e \in Endpoints :
    /\ ep[e].pc.made /\ ep[e].pc.local /\ ep[e].pc.remote
    /\ ep[e].applied >= 1

\* pc.onconnectionstatechange with 'connected' (142-149)
PairConnected(e) ==
  /\ TransportUp
  /\ ep[e].pc.conn = "new"
  /\ ep' = [ep EXCEPT ![e].pc.conn = "connected",
                      ![e].uiState = ReportedFor("connected")]
  /\ UNCHANGED <<up, down, didSend, serverVars>>

\* pc.ondatachannel at the answerer (163-167)
PairOnDataChannel(e) ==
  /\ ep[e].pc.made /\ ~ep[e].isInitiator /\ ep[e].pc.conn = "connected"
  /\ ep[e].dataChannel = Null
  /\ \E i \in Endpoints \ {e} : ep[i].chan # "none"
  /\ ep' = [ep EXCEPT ![e].dataChannel = "created", ![e].chan = "connecting"]
  /\ UNCHANGED <<up, down, didSend, serverVars>>

\* dataChannel.onopen (186-189)
PairChannelOpen(e) ==
  /\ ep[e].chan = "connecting"
  /\ ep[e].pc.made /\ ep[e].pc.conn = "connected"
  /\ ep' = [ep EXCEPT ![e].chan = "open", ![e].uiState = "connected"]
  /\ UNCHANGED <<up, down, didSend, serverVars>>

NextPair ==
  \/ \E e \in Endpoints : PairAccept(e) /\ UNCHANGED notPair
  \/ \E e \in Endpoints : PairWsOpen(e) /\ UNCHANGED notPair
  \/ \E e \in Endpoints : PairServer(e) /\ UNCHANGED notPair
  \/ \E e \in Endpoints : PairWsMessage(e) /\ UNCHANGED notPair
  \/ \E e \in Endpoints : PairOpSettles(e) /\ UNCHANGED notPair
  \/ \E e \in Endpoints : PairIceCandidate(e) /\ UNCHANGED notPair
  \/ \E e \in Endpoints : PairConnected(e) /\ UNCHANGED notPair
  \/ \E e \in Endpoints : PairOnDataChannel(e) /\ UNCHANGED notPair
  \/ \E e \in Endpoints : PairChannelOpen(e) /\ UNCHANGED notPair

\* Every handler that is ready to run is run in the end: the event loops of
\* the two browsers and of the server.
FairPair ==
  \A e \in Endpoints :
    /\ WF_vars(PairAccept(e) /\ UNCHANGED notPair)
    /\ WF_vars(PairWsOpen(e) /\ UNCHANGED notPair)
    /\ WF_vars(PairServer(e) /\ UNCHANGED notPair)
    /\ WF_vars(PairWsMessage(e) /\ UNCHANGED notPair)
    /\ WF_vars(PairOpSettles(e) /\ UNCHANGED notPair)
    /\ WF_vars(PairIceCandidate(e) /\ UNCHANGED notPair)
    /\ WF_vars(PairConnected(e) /\ UNCHANGED notPair)
    /\ WF_vars(PairOnDataChannel(e) /\ UNCHANGED notPair)
    /\ WF_vars(PairChannelOpen(e) /\ UNCHANGED notPair)

\* ======================================================================
\* One file, byte by byte: sendChunks (422-502), handleChunk (540-569),
\* handleTransferComplete (571-582), over an open channel
\* ======================================================================
\* ---------------------------------------------------------------- bounds
MaxFileLen == 4
MaxChunkSize == 3

ByteValues == {"A", "B"}
Files == UNION {[1..n -> ByteValues] : n \in 0..MaxFileLen}
ChunkSizes == 1..MaxChunkSize
NoBlob == << "none" >>

\* Blob.slice(start, end): the bytes at offsets start .. end-1, both ends
\* clamped to the size of the blob.
slice(bytes, start, end) ==
  LET lo == Min(start, Len(bytes))
      hi == Min(end, Len(bytes))
  IN IF hi <= lo THEN << >> ELSE SubSeq(bytes, lo + 1, hi)

\* new Blob(parts): the parts one after the other.
RECURSIVE Blob(_)
Blob(parts) == IF parts = << >> THEN << >> ELSE parts[1] \o Blob(Tail(parts))

ChunkEndUnclamped(start, cs, size) == start + cs
\* line 446: end = Math.min(start + chunkSize, file.size)
ChunkEnd(start, cs, size) == Min(start + cs, size)

\* Before sendFile: nothing sent, nothing received.
BytesAtRest ==
  /\ snd = [status |-> "pending", idx |-> 0, bytes |-> 0]
  /\ emitted = << >>
  /\ progress = << >>
  /\ pipe = << >>
  /\ rcv = [status |-> "none", chunks |-> << >>, bytes |-> 0]
  /\ blob = NoBlob

\* The file and the configured chunk size are the inputs of the run.
InitBytes ==
  /\ file \in Files
  /\ cfgChunk \in ChunkSizes
  /\ BytesAtRest

\* In the specifications of the other components no file is in hand.
NoBytes ==
  /\ file = << >>
  /\ cfgChunk = MaxChunkSize
  /\ BytesAtRest

\* sendFile (376-420): file-metadata, then status transferring.
BytesSendFile ==
  /\ snd.status = "pending"
  /\ snd' = [snd EXCEPT !.status = "transferring"]
  /\ pipe' = Append(pipe, [type |-> "file-metadata", size |-> Len(file),
                           data |-> << >>])
  /\ UNCHANGED <<file, cfgChunk, emitted, progress, rcv, blob>>

\* One round of sendNextChunk (433-489) that slices, reads and sends.
BytesSendChunk ==
  /\ snd.status = "transferring"
  /\ snd.idx * cfgChunk < Len(file)
  /\ LET start == snd.idx * cfgChunk
         end == ChunkEnd(start, cfgChunk, Len(file))
         chunk == slice(file, start, end)
     IN /\ pipe' = Append(pipe, [type |-> "chunk", size |-> 0, data |-> chunk])
        /\ emitted' = Append(emitted, chunk)
        /\ snd' = [snd EXCEPT !.idx = @ + 1, !.bytes = end]
        /\ progress' = Append(progress, end)
  /\ UNCHANGED <<file, cfgChunk, rcv, blob>>

\* The round of sendNextChunk that finds start >= file.size (448-465).
BytesSendComplete ==
  /\ snd.status = "transferring"
  /\ snd.idx * cfgChunk >= Len(file)
  /\ snd' = [snd EXCEPT !.status = "completed", !.bytes = Len(file)]
  /\ pipe' = Append(pipe, [type |-> "transfer-complete", size |-> 0,
                           data |-> << >>])
  /\ UNCHANGED <<file, cfgChunk, emitted, progress, rcv, blob>>

\* dataChannel.onmessage at the receiver: the next frame.
BytesReceive ==
  /\ pipe # << >>
  /\ pipe' = Tail(pipe)
  /\ LET m == Head(pipe)
     IN CASE m.type = "file-metadata" ->
               /\ rcv' = [status |-> "transferring", chunks |-> << >>,
                          bytes |-> 0]
               /\ blob' = blob
          [] m.type = "chunk" ->
               /\ rcv' = IF rcv.status = "transferring"
                         THEN [rcv EXCEPT !.chunks = Append(@, m.data),
                                          !.bytes = @ + Len(m.data)]
                         ELSE rcv
               /\ blob' = blob
          [] m.type = "transfer-complete" ->
               /\ rcv' = [rcv EXCEPT !.status = "completed",
                                     !.bytes = Len(file)]
               /\ blob' = Blob(rcv.chunks)
  /\ UNCHANGED <<file, cfgChunk, snd, emitted, progress>>

NextBytes ==
  \/ BytesSendFile /\ UNCHANGED notBytes
  \/ BytesSendChunk /\ UNCHANGED notBytes
  \/ BytesSendComplete /\ UNCHANGED notBytes
  \/ BytesReceive /\ UNCHANGED notBytes

Init == InitServer /\ InitEngine /\ InitOrch /\ NoBytes /\ InitPair
SpecServer == Init /\ [][NextServer]_vars
SpecEngine == Init /\ [][NextEngine]_vars
SpecOrch == Init /\ [][NextOrch]_vars
SpecStorage == Init /\ [][NextStorage]_vars
SpecPause == Init /\ [][NextPause]_vars
SpecFail == Init /\ [][NextFail]_vars
\* A file is in hand and nothing else is going on.
InitWithFile == InitServer /\ InitEngine /\ InitOrch /\ InitBytes /\ InitPair
SpecBytes == InitWithFile /\ [][NextBytes]_vars
SpecPair == Init /\ [][NextPair]_vars /\ FairPair

\* ======================================================================
\* Properties of the rendezvous server (SpecServer)
\* ======================================================================
Members(r) == IF HasRoom(rooms, r) THEN SeqToSet(rooms[r].clients) ELSE {}
ErrFull == ErrorMsg("Room is full or unavailable")

\* C1: in every reachable state every room of the registry holds at most
\* 2 endpoints.
C1_RoomAtMostTwo ==
  \A r \in DOMAIN rooms : Len(rooms[r].clients) <= 2

\* C1 witness: a room holds 2 endpoints and a third, open endpoint that is
\* in no room has just been answered "Room is full or unavailable".
C1_Witness ==
  \E r \in DOMAIN rooms, c \in Clients :
    /\ Len(rooms[r].clients) = 2
    /\ sock[c] = "open"
    /\ \A q \in RoomIds : c \notin Members(q)
    /\ sent = << [to |-> c, msg |-> ErrFull] >>

\* C2 as stated: a join for a room that holds 2 endpoints leaves the
\* room's endpoint set unchanged, the joiner is not recorded as being in
\* that room, the joiner alone receives the error and nothing is delivered
\* to either of the room's endpoints.
C2_Original ==
  [][\A c \in Clients, r \in RoomIds :
       (HasRoom(rooms, r) /\ Len(rooms[r].clients) = 2 /\ Join(c, r))
       => /\ HasRoom(rooms', r) /\ rooms'[r].clients = rooms[r].clients
          /\ RecordedRoom(c)' # r
          /\ sent' = << [to |-> c, msg |-> ErrFull] >>
          /\ \A i \in 1..Len(sent') : sent'[i].to \notin Members(r)]_vars

\* C2 amended: a join for a room that holds 2 endpoints leaves the
\* registry and the endpoint-to-room mapping unchanged (so a joiner that is
\* not one of the two is not recorded as being in that room), the joiner
\* alone receives error{"Room is full or unavailable"}, and no message is
\* delivered to any other endpoint.
C2_FullJoinRejected ==
  [][\A c \in Clients, r \in RoomIds :
       (HasRoom(rooms, r) /\ Len(rooms[r].clients) = 2 /\ Join(c, r))
       => /\ rooms' = rooms
          /\ clientRooms' = clientRooms
          /\ (c \notin Members(r) => RecordedRoom(c)' # r)
          /\ sent' = << [to |-> c, msg |-> ErrFull] >>
          /\ \A i \in 1..Len(sent') : sent'[i].to = c]_vars

\* C2 witness: the joiner that was just rejected is in no room and is not
\* recorded anywhere, while a room holds 2 other endpoints.
C2_Witness ==
  \E c \in Clients, r \in DOMAIN rooms :
    /\ sent = << [to |-> c, msg |-> ErrFull] >>
    /\ Len(rooms[r].clients) = 2
    /\ c \notin Members(r)
    /\ RecordedRoom(c) = NoRoom

\* C3 as stated: every relayed envelope has exactly one of three
\* outcomes: (1) the sender has no recorded room and it alone receives
\* "Not in a room"; (2) the sender's room has another endpoint with an
\* open connection, which alone receives the envelope, tag and payload
\* unmodified; (3) there is none and the sender alone receives "No peer
\* connected". The envelope never goes back to the sender, nor to an
\* endpoint of a different room.
C3_RelayOutcomes ==
  [][\A c \in Clients, m \in RelayMsgs :
       Relay(c, m) =>
         LET rid == RecordedRoom(c)
             peers == {d \in Members(rid) \ {c} : sock[d] = "open"}
         IN /\ \/ /\ rid = NoRoom
                   /\ sent' = << [to |-> c, msg |-> ErrorMsg("Not in a room")] >>
                \/ /\ rid # NoRoom /\ peers # {}
                   /\ \E d \in peers : sent' = << [to |-> d, msg |-> m] >>
                \/ /\ rid # NoRoom /\ peers = {}
                   /\ sent' = << [to |-> c, msg |-> ErrorMsg("No peer connected")] >>
            /\ \A i \in 1..Len(sent') :
                 sent'[i].msg.type \in {"offer", "answer", "ice-candidate"}
                 => /\ sent'[i].to # c
                    /\ RecordedRoom(sent'[i].to) = rid]_vars

C10_NoEmptyRoom ==
  \A r \in DOMAIN rooms : Len(rooms[r].clients) >= 1

\* C10 witness: the close handler has just removed the last endpoint of a
\* room and the room is gone from the registry.
C10_Witness ==
  \E r \in RoomIds :
    /\ logged = << [line |-> "Removed empty room", room |-> r] >>
    /\ ~HasRoom(rooms, r)

\* C11: handling an offer, answer or ice-candidate envelope, forwarded or
\* answered with an error, leaves the room registry and the
\* endpoint-to-room mapping exactly as they were.
C11_RelayKeepsRegistry ==
  [][\A c \in Clients, m \in RelayMsgs :
       Relay(c, m) => rooms' = rooms /\ clientRooms' = clientRooms]_vars

\* C11 witness: an envelope was just answered "No peer connected" to a
\* sender that is still alone in its room and still recorded in it.
C11_Witness ==
  \E c \in Clients :
    /\ sent = << [to |-> c, msg |-> ErrorMsg("No peer connected")] >>
    /\ Truthy(RecordedRoom(c))
    /\ Members(RecordedRoom(c)) = {c}

\* The one other endpoint of room r as a joiner c finds it (0 if none).
OtherBefore(r, c) ==
  IF Members(r) \ {c} = {} THEN NoClient
  ELSE CHOOSE o \in Members(r) \ {c} : TRUE
JoinSucceeds(c, r) == ~HasRoom(rooms, r) \/ Len(rooms[r].clients) < RoomLimit

\* C12 as stated: a successful join to a room that already holds one other
\* endpoint delivers exactly one peer-joined, to that endpoint, and nothing
\* to the joiner; a successful join to a room with no other endpoint
\* delivers no message to anyone.
C12_Original ==
  [][\A c \in Clients, r \in RoomIds :
       (JoinSucceeds(c, r) /\ Join(c, r))
       => sent' = IF OtherBefore(r, c) = NoClient THEN << >>
                  ELSE << [to |-> OtherBefore(r, c), msg |-> PeerJoinedMsg] >>]_vars

\* C12 amended: a successful join to a room that already holds one other
\* endpoint delivers exactly one peer-joined, to that endpoint, if that
\* endpoint's connection is open, and no message if it is not; nothing is
\* delivered to the joiner; a successful join to a room with no other
\* endpoint delivers no message to anyone.
C12_JoinNotifiesPeer ==
  [][\A c \in Clients, r \in RoomIds :
       (JoinSucceeds(c, r) /\ Join(c, r))
       => sent' = IF OtherBefore(r, c) # NoClient
                     /\ sock[OtherBefore(r, c)] = "open"
                  THEN << [to |-> OtherBefore(r, c), msg |-> PeerJoinedMsg] >>
                  ELSE << >>]_vars

\* C12 witness: a room of two whose first endpoint, its connection open,
\* has just been sent the one peer-joined of the second endpoint's join.
C12_Witness ==
  \E r \in DOMAIN rooms :
    /\ Len(rooms[r].clients) = 2
    /\ sock[rooms[r].clients[1]] = "open"
    /\ sent = << [to |-> rooms[r].clients[1], msg |-> PeerJoinedMsg] >>
    /\ RecordedRoom(rooms[r].clients[2]) = r

\* C13 as stated: when the connection of an endpoint that is in a room
\* closes, peer-left is sent to the other endpoint of that room (if it is
\* there with an open connection), on the room as it was before the
\* removal; the closing endpoint is removed, the other endpoint stays a
\* member and its connection is not closed by the server.
C13_PeerLeftThenRemoved ==
  [][\A c \in Clients, r \in RoomIds :
       (c \in Members(r) /\ Disconnect(c))
       => LET others == Members(r) \ {c}
          IN /\ \A o \in others :
                  /\ sock[o] = "open"
                     => [to |-> o, msg |-> PeerLeftMsg] \in SeqToSet(sent')
                  /\ HasRoom(rooms', r) /\ o \in SeqToSet(rooms'[r].clients)
                  /\ sock'[o] = sock[o]
             /\ ~(HasRoom(rooms', r) /\ c \in SeqToSet(rooms'[r].clients))]_vars

\* C14 as stated: every inbound message that is not a well-formed join,
\* offer, answer or ice-candidate envelope causes
\* error{"Invalid message format"} to be sent to the sender only, and
\* leaves the registry and the sender's room membership unchanged.
C14_MalformedAnswered ==
  [][\A c \in Clients, input \in OtherInputs :
       OtherMessage(c, input)
       => /\ sent' = << [to |-> c, msg |-> ErrorMsg("Invalid message format")] >>
          /\ rooms' = rooms
          /\ clientRooms' = clientRooms]_vars

\* C32: the endpoint-to-room mapping and the registry agree in every
\* reachable state: an endpoint is in room r's map iff the mapping records r
\* for it (so it is in at most one room), and an endpoint whose connection
\* has closed is in no room.
C32_MappingAgreesWithRegistry ==
  /\ \A c \in Clients, r \in DOMAIN rooms :
       c \in SeqToSet(rooms[r].clients) <=> RecordedRoom(c) = r
  /\ \A c \in Clients :
       sock[c] = "closed" => \A r \in DOMAIN rooms : c \notin SeqToSet(rooms[r].clients)

\* C23: the sweep removes a room only if it has no endpoint and is older
\* than the TTL; a room holding an endpoint is never removed by it, under
\* every interleaving with joins and disconnects, and it closes no
\* connection (no socket, no endpoint-to-room entry changes).
C23_SweepOnlyEmptyOld ==
  [][Sweep =>
       /\ \A r \in DOMAIN rooms :
            /\ r \notin DOMAIN rooms' =>
                 Len(rooms[r].clients) = 0 /\ rooms[r].age > maxAge
            /\ r \in DOMAIN rooms' => rooms'[r] = rooms[r]
       /\ DOMAIN rooms' \subseteq DOMAIN rooms
       /\ sock' = sock
       /\ clientRooms' = clientRooms]_vars
C23_Witness ==
  /\ \E i \in 1..Len(logged) : logged[i].line = "Cleaned up room"
  /\ \E r \in DOMAIN rooms : Len(rooms[r].clients) >= 1 /\ rooms[r].age > maxAge

\* ======================================================================
\* Properties of the chunk loop and the reassembly (SpecBytes)
\* ======================================================================
\* The bytes of the file at offsets lo .. hi-1.
BytesAt(lo, hi) == [i \in 1..(hi - lo) |-> file[lo + i]]
UpTo(k) == IF k * cfgChunk <= Len(file) THEN k * cfgChunk ELSE Len(file)
Ceil(n, d) == (n + d - 1) \div d

\* C15: one file sent to completion over an open channel, no cancel: the
\* sender emits ceil(size / chunkSize) chunks, the k-th (from 0) being the
\* bytes [k*chunkSize, min((k+1)*chunkSize, size)) and moving
\* bytesTransferred to min((k+1)*chunkSize, size); the Blob the receiver
\* assembles at transfer-complete equals the file.
C15_ChunksAndReassembly ==
  /\ \A k \in 1..Len(emitted) :
       /\ emitted[k] = BytesAt((k - 1) * cfgChunk, UpTo(k))
       /\ progress[k] = UpTo(k)
  /\ Len(progress) = Len(emitted)
  /\ snd.status = "completed" => Len(emitted) = Ceil(Len(file), cfgChunk)
  /\ rcv.status = "completed" => blob = file
C15_Witness ==
  /\ rcv.status = "completed"
  /\ Len(emitted) >= 2
  /\ Len(file) % cfgChunk # 0
  /\ blob = file

\* ======================================================================
\* Properties of the transfer engine (SpecEngine)
\* ======================================================================
\* The file that follows f in the queue f was passed in: the next transfer
\* started by the same sendFiles call (0 if there is none yet).
NextOfCall(f) ==
  LET later == {g \in (f + 1)..Len(xfer) : xfer[g].call = xfer[f].call}
  IN IF later = {} THEN 0 ELSE CHOOSE g \in later : \A h \in later : g <= h

MetadataAt(i, g) == wire[i].type = "file-metadata" /\ wire[i].id = g

\* C4: for every queue passed to sendFiles, the file-metadata of the
\* (k+1)-th file is never emitted before the transfer-complete of the k-th
\* file has been emitted: whenever the later one is out the earlier one is
\* out too, and the sender's output never has them in the opposite order.
C4_CompleteBeforeNextMetadata ==
  \A f \in 1..Len(xfer) :
    LET g == NextOfCall(f)
    IN (g # 0 /\ xfer[g].out.meta)
       => /\ xfer[f].out.complete
          /\ \A i \in 1..Len(wire), j \in 1..Len(wire) :
               (MetadataAt(i, g) /\ wire[j] = CompleteFrame(f)) => j < i

\* C4 witness: a queue of two files, the first of two chunks; both chunks,
\* the transfer-complete of the first and the file-metadata of the second
\* have been emitted.
C4_Witness ==
  \E f \in 1..Len(xfer) :
    /\ NextOfCall(f) # 0
    /\ xfer[f].out = [meta |-> TRUE, chunks |-> 2, complete |-> TRUE,
                      cancel |-> FALSE]
    /\ xfer[NextOfCall(f)].out.meta

\* C5 as stated: the sender never hands a chunk to the transport at a
\* moment when the transport's buffered amount exceeds maxBufferedAmount,
\* at the instant of the send itself.
C5_NoChunkOverThreshold ==
  [][\A f \in 1..Len(xfer) :
       (ChunkRead(f) /\ dc = "open")
       => getBufferedAmount(wire) <= maxBufferedAmount]_vars

\* C6 as stated: every receiving transfer whose status is completed has
\* bytesTransferred = totalBytes = metadata.size, and the lengths of its
\* received chunks sum to metadata.size.
C6_CompletedMatchesSize ==
  \A f \in DOMAIN rx :
    rx[f].status = "completed"
    => /\ rx[f].bytes = rx[f].total
       /\ rx[f].total = rx[f].size
       /\ SumLen(rx[f].chunks) = rx[f].size

CancelledAtSender(f) == xfer'[f].status = "cancelled" /\ f \notin sendMap'
CancelledAtReceiver(f) ==
  rx'[f].status = "cancelled" /\ f \notin SeqToSet(recvKeys')

\* What C7 says of a cancel that arrives from the peer: the transfer is
\* cancelled and leaves the set that held it; nothing is emitted.
RemoteCancelOutcome ==
  /\ (DeliverToSender /\ Head(back) \in sendMap
         /\ canCancel(xfer[Head(back)].status))
     => CancelledAtSender(Head(back)) /\ wire' = wire
  /\ (DeliverToReceiver /\ Head(wire).type = "transfer-cancel"
         /\ HasRx(Head(wire).id) /\ canCancel(rx[Head(wire).id].status))
     => CancelledAtReceiver(Head(wire).id) /\ back' = back

\* C7 as stated: cancelling a transfer whose status is pending,
\* transferring or paused sets its status to cancelled and removes its
\* record from the set that held it; a local cancel additionally emits
\* exactly one transfer-cancel{fileId} to the peer.
C7_Original ==
  [][/\ \A f \in 1..Len(xfer) :
         (canCancel(xfer[f].status) /\ CancelAtSender(f))
         => CancelledAtSender(f) /\ wire' = Append(wire, CancelFrame(f))
     /\ \A f \in DOMAIN rx :
         (canCancel(rx[f].status) /\ CancelAtReceiver(f))
         => CancelledAtReceiver(f) /\ back' = Append(back, f)
     /\ RemoteCancelOutcome]_vars

\* C7 amended: cancelling a transfer whose status is pending, transferring
\* or paused sets its status to cancelled and removes its record from the
\* set that held it; a local cancel additionally emits exactly one
\* transfer-cancel{fileId} to the peer if the data channel is open, and
\* emits nothing if it is not.
C7_CancelOutcome ==
  [][/\ \A f \in 1..Len(xfer) :
         (canCancel(xfer[f].status) /\ CancelAtSender(f))
         => /\ CancelledAtSender(f)
            /\ wire' = IF dc = "open" THEN Append(wire, CancelFrame(f))
                       ELSE wire
     /\ \A f \in DOMAIN rx :
         (canCancel(rx[f].status) /\ CancelAtReceiver(f))
         => /\ CancelledAtReceiver(f)
            /\ back' = IF dc = "open" THEN Append(back, f) ELSE back
     /\ RemoteCancelOutcome]_vars

\* C7 witness: with the channel open, a sending transfer was cancelled
\* locally after its first chunk: it is cancelled, gone from the sending
\* set, and its transfer-cancel is the last frame handed to the channel.
C7_Witness ==
  \E f \in 1..Len(xfer) :
    /\ dc = "open"
    /\ xfer[f].status = "cancelled"
    /\ f \notin sendMap
    /\ xfer[f].out.chunks = 1
    /\ xfer[f].out.cancel
    /\ wire # << >> /\ wire[Len(wire)] = CancelFrame(f)

\* C19: completed, cancelled and error are absorbing: no step of the
\* engines (a cancel, a late step of the send loop, a received
\* transfer-cancel or transfer-complete) changes the status of a sending
\* or receiving transfer that has one of them.
TerminalStatuses == {"completed", "cancelled", "error"}
C19_TerminalStatusesStay ==
  [][/\ \A f \in 1..Len(xfer) :
         xfer[f].status \in TerminalStatuses =>
           xfer'[f].status = xfer[f].status
     /\ \A f \in DOMAIN rx :
         rx[f].status \in TerminalStatuses => rx'[f].status = rx[f].status]_vars

\* C20: at every instant at most one sending transfer has status
\* transferring, whatever sendFiles calls were made.
Transferring == {f \in 1..Len(xfer) : xfer[f].status = "transferring"}
C20_OneTransferring == Cardinality(Transferring) <= 1

\* C21: once the transport has closed, a sending transfer that was
\* announced on the open channel and is still pending, transferring or
\* paused goes through no further round of its loop that reads a chunk,
\* and is never marked completed.
InFlight == {"pending", "transferring", "paused"}
C21_ClosedStopsTransfers ==
  [][\A f \in 1..Len(xfer) :
       (dc = "closed" /\ xfer[f].out.meta /\ xfer[f].status \in InFlight) =>
         /\ xfer'[f].status # "completed"
         /\ xfer'[f].idx = xfer[f].idx]_vars

\* C22: a chunk read or send failure marks that transfer error, changes
\* no other transfer, and does not stop the files queued behind it in the
\* same sendFiles call: the call goes on with the next file of its queue.
C22_FailureIsLocal ==
  [][\A f \in 1..Len(xfer) :
       (xfer[f].pc = "read" /\ ChunkReadFails(f)) =>
         /\ xfer'[f].status = "error"
         /\ \A g \in (1..Len(xfer)) \ {f} : xfer'[g] = xfer[g]
         /\ calls[xfer[f].call].queue # << >> => Len(xfer') = Len(xfer) + 1]_vars

\* C24: once a sending transfer is cancelled (its transfer-cancel emitted
\* locally or received from the peer), no further chunk of it is handed
\* to the channel, also when the cancel came while the loop was reading.
\* A cancelled transfer whose transfer-cancel went out, or that was
\* announced to the peer: the peer cancels only what was announced to it,
\* and a local cancel that emitted nothing after the announcement found
\* the channel closed.
CancelEmittedOrReceived(f) ==
  /\ xfer[f].status = "cancelled"
  /\ xfer[f].out.cancel \/ xfer[f].out.meta
C24_NoChunkAfterCancel ==
  [][\A f \in 1..Len(xfer) :
       CancelEmittedOrReceived(f) =>
         xfer'[f].out.chunks = xfer[f].out.chunks]_vars

\* C25: on the receiver at most one receiving transfer has status
\* transferring at any instant (so that a binary frame, which names no
\* transfer, belongs to the one most recently announced).
Receiving == {f \in DOMAIN rx : HasRx(f) /\ rx[f].status = "transferring"}
C25_OneReceiving == Cardinality(Receiving) <= 1

\* C26: a file sent to completion has had emitted for it one
\* file-metadata, exactly ceil(size / chunkSize) binary frames and one
\* transfer-complete; none for a file of size 0 between the two control
\* frames.
C26_CompletedEmittedAll ==
  \A f \in 1..Len(xfer) :
    xfer[f].status = "completed" =>
      /\ xfer[f].out.meta
      /\ xfer[f].out.chunks = TotalChunks(xfer[f].size)
      /\ xfer[f].out.complete

\* C31: no control message and no chunk is handed to the channel unless the
\* channel is open at that moment: while it is not open, a step of either
\* engine puts nothing on the wire in either direction, and no transfer
\* counts a frame as emitted.
C31_NothingSentUnlessOpen ==
  [][dc # "open" =>
       /\ wire' = wire
       /\ back' = back
       /\ \A f \in 1..Len(xfer) : xfer'[f].out = xfer[f].out
       /\ \A f \in (Len(xfer) + 1)..Len(xfer') : xfer'[f].out = NothingOut]_vars
\* A file went through sendFile and its chunk loop while the channel was
\* still connecting: the transfer is completed and none of its frames is out.
C31_Witness ==
  /\ dc = "connecting" /\ wire = << >>
  /\ \E f \in 1..Len(xfer) :
       /\ xfer[f].size > 0 /\ xfer[f].status = "completed"
       /\ xfer[f].out = NothingOut

\* The file a sendFiles call is at: the last transfer it has started.
CurrentOf(k) ==
  LET mine == {f \in 1..Len(xfer) : xfer[f].call = k}
  IN CHOOSE f \in mine : \A g \in mine : g <= f

\* C34: every sendFiles call settles once the file it is at has reached
\* completed, cancelled or error. Stated on states: a call whose current
\* file is terminal with no timer and no read of its chunk loop pending (so
\* that no later step belongs to it) has resolved or rejected.
C34_CallSettles ==
  \A k \in 1..Len(calls) :
    (/\ xfer[CurrentOf(k)].status \in TerminalStatuses
     /\ xfer[CurrentOf(k)].pc = "idle")
      => calls[k].state # "running"

\* C35: a sending transfer is completed only if its file-metadata, each of
\* its chunks and its transfer-complete were handed to the open channel, and
\* bytesTransferred counts no chunk that was dropped: it is at most the
\* bytes of the chunks that went out.
C35_CountsOnlyWhatWasSent ==
  \A f \in 1..Len(xfer) :
    /\ xfer[f].bytes <= xfer[f].out.chunks * chunkSize
    /\ xfer[f].status = "completed" =>
         /\ xfer[f].out.meta /\ xfer[f].out.complete
         /\ xfer[f].out.chunks * chunkSize >= xfer[f].size

\* C36: for every transfer record, sending or receiving, bytesTransferred
\* stays within 0..totalBytes and never decreases, and currentChunkIndex of
\* a sending transfer is at most totalChunks.
C36_ProgressBounded ==
  [][/\ \A f \in 1..Len(xfer') :
          /\ xfer'[f].bytes \in 0..xfer'[f].size
          /\ xfer'[f].idx <= TotalChunks(xfer'[f].size)
     /\ \A f \in 1..Len(xfer) : xfer'[f].bytes >= xfer[f].bytes
     /\ \A f \in DOMAIN rx' : rx'[f].bytes \in 0..rx'[f].total
     /\ \A f \in DOMAIN rx : rx'[f].bytes >= rx[f].bytes]_vars

\* C16: a sending transfer paused while transferring has status paused, and
\* emits no chunk (its currentChunkIndex stays where it was), from the
\* pause until the resume.
C16_PausedUntilResume ==
  [][\A f \in 1..Len(xfer) :
       (f \in pauseAsked /\ f \in pauseAsked') =>
         /\ xfer[f].status = "paused"
         /\ xfer'[f].idx = xfer[f].idx]_vars

\* ======================================================================
\* Properties of the orchestrator (SpecOrch)
\* ======================================================================
\* Candidates handed to the peer connection whose addIceCandidate has not
\* settled yet.
PendingCandidates ==
  {pc.chain[i].c : i \in {k \in 1..Len(pc.chain) :
                           pc.chain[k].op = "addIceCandidate"}}

\* C8 as stated: an ice-candidate received before the remote description
\* has been applied (including before the peer connection exists) is kept
\* and applied after the remote description, in the order received; no
\* received candidate is ever discarded without being applied: every
\* candidate received so far has been applied or is still waiting to be,
\* and the applied ones are in the order received.
C8_EarlyCandidatesKept ==
  /\ \A i \in 1..Len(got) :
       got[i] \in SeqToSet(applied) \cup PendingCandidates
  /\ \A i \in 1..Len(applied), j \in 1..Len(applied) :
       i < j => applied[i] < applied[j]
\* C18: within one connect call, once the reported state is peer-left,
\* error or disconnected, no signaling message, channel open or close,
\* transport state change or rendezvous close (or error) changes it.
TerminalStates == {"peer-left", "error", "disconnected"}
C18_TerminalStatesStay ==
  [][(/\ uiState \in TerminalStates
      /\ \/ \E type \in SignalingTypes : WsMessage(type)
         \/ OpSettles
         \/ WsError
         \/ WsClose
         \/ \E to \in {"connected", "disconnected", "failed"} :
              ConnectionStateChange(to)
         \/ OnDataChannel
         \/ DataChannelOnOpen
         \/ DataChannelOnClose)
     => uiState' = uiState]_vars

\* C27: handling peer-left closes and releases the channel and the peer
\* connection and closes the rendezvous socket, and nothing is sent on
\* that socket afterwards.
C27_PeerLeftTearsDown ==
  [][/\ WsMessage("peer-left") =>
          /\ dataChannel' = Null
          /\ chan' \notin {"connecting", "open"}
          /\ pc' = NoPeerConnection
          /\ ws' = Null
          /\ wsOut' = << >>
     /\ ws = Null => wsOut' = << >>]_vars
C27_Witness ==
  /\ uiState = "peer-left"
  /\ ws = Null /\ pc = NoPeerConnection /\ dataChannel = Null
  /\ chan = "closing"

\* C28: an answer that cannot be applied, and a candidate that cannot be
\* applied, are each reported through the error callback, and change
\* neither the reported connection state nor the handles (socket, peer
\* connection, channel) of the orchestrator.
HeadFails ==
  /\ pc # NoPeerConnection /\ pc.chain # << >>
  /\ \/ Head(pc.chain).op = "setRemoteDescription(answer)"
         /\ ~(pc.local /\ ~pc.remote)
     \/ Head(pc.chain).op = "addIceCandidate" /\ ~pc.remote
C28_ApplyFailureReported ==
  [][(HeadFails /\ OpSettles) =>
       /\ onErr' # << >>
       /\ uiState' = uiState
       /\ ws' = ws /\ dataChannel' = dataChannel /\ chan' = chan
       /\ pc' = [pc EXCEPT !.chain = Tail(@)]]_vars

\* C29: a peer-joined or an offer received while a peer connection exists
\* creates no second one, does not replace the one there is, and does not
\* change the role.
C29_NoSecondPeerConnection ==
  [][\A type \in {"peer-joined", "offer"} :
       (pc # NoPeerConnection /\ WsMessage(type)) =>
         /\ pc' = pc
         /\ isInitiator' = isInitiator
         /\ dataChannel' = dataChannel]_vars

\* C30: a received answer is applied as the remote description only by an
\* endpoint that is the initiator and has sent an offer.
AnswerApplied ==
  /\ pc # NoPeerConnection /\ pc.chain # << >>
  /\ Head(pc.chain) = SetRemoteAnswerOp
  /\ OpSettles
  /\ pc'.remote /\ ~pc.remote
C30_AnswerOnlyAfterOffer ==
  [][AnswerApplied => isInitiator /\ pc.offered]_vars
\* C33: after disconnect() or cleanup() has been called, at whatever point
\* of the connection setup, the orchestrator sends no rendezvous message (no
\* join in particular) until connect() is called again.
C33_SilentAfterTeardown ==
  tornDown => wsOut = << >>

\* C37: whenever the rendezvous connection of the orchestrator closes (its
\* close event, or its own close() in cleanup), in any connection state, the
\* same step closes the channel and releases the channel and the peer
\* connection.
C37_SocketCloseReleases ==
  [][(ws' # ws /\ ws' \in {Null, "closed"}) =>
       /\ dataChannel' = Null
       /\ chan' \notin {"connecting", "open"}
       /\ pc' = NoPeerConnection]_vars
\* The socket closed by itself while the state reported was connected.
C37_Witness ==
  /\ ws = "closed" /\ uiState = "connected"
  /\ pc = NoPeerConnection /\ dataChannel = Null /\ chan = "closing"

\* ======================================================================
\* Properties of the pair of endpoints (SpecPair)
\* ======================================================================
\* The endpoints of the room, in the order the server added them.
Joined == IF HasRoom(rooms, PairRoom) THEN rooms[PairRoom].clients ELSE << >>
BothConnected ==
  /\ Len(Joined) = 2
  /\ \A e \in Endpoints : ep[e].uiState = "connected"
  /\ ep[Joined[1]].isInitiator
  /\ <<Joined[1], "offer">> \in didSend
  /\ <<Joined[1], "answer">> \notin didSend
  /\ ~ep[Joined[2]].isInitiator
  /\ <<Joined[2], "answer">> \in didSend
  /\ <<Joined[2], "offer">> \notin didSend

\* C17: A joins a room, B joins it after A, neither leaves, the relay
\* delivers and the transport accepts everything: under fair scheduling
\* both eventually report connected, A having sent the offer as initiator
\* and B the answer as answerer.
C17_EventuallyConnected == <>BothConnected
C17_Witness ==
  /\ BothConnected
  /\ \A e \in Endpoints : ep[e].chan = "open" /\ ep[e].applied = MaxGathered

====
